---------------------------- MODULE Spec2Model ----------------------------
(***************************************************************************)
(* Refresh-token session engine of affordly-backend, its gold price        *)
(* history and gold price cache, and the handlers of its products and      *)
(* savings logs.                                                           *)
(*                                                                         *)
(* The state is the RefreshToken collection, the User collection, the      *)
(* GoldPriceHistory, Product and SavingsLog collections, the price cache   *)
(* and the clock, plus the requests that are in flight.  Every handler is  *)
(* cut at                                                                  *)
(* its store operations: one step of a request runs the synchronous code   *)
(* that follows the previous `await`, and then performs the next store     *)
(* operation atomically.  The code after the last store operation (the     *)
(* response) belongs to the step of that operation.                        *)
(*                                                                         *)
(* The clock counts hours.                                                 *)
(***************************************************************************)
EXTENDS Integers, Sequences, FiniteSets, TLC

\* ------------------------------------------------------------- bounds --
MaxUsers == 2
MaxReq == 2
\* interleaved requests (Spec)
ConcUsers == 1
ConcDevices == 1
ConcTokens == 3
ConcSessions == 3
ConcIps == 1
\* serial requests (SpecSeq)
SeqUsers == 2
SeqDevices == 2
SeqTokens == 3
SeqSessions == 3
SeqIps == 1
\* serial requests of one user on one device, over the whole expiry window
\* (SpecClock)
ClockUsers == 1
ClockDevices == 1
ClockTokens == 3
ClockSessions == 3
ClockIps == 1
ClockHours == 1
ClockWindows == 1
\* interleaved sign-ups, refreshes and deactivations of one user while the
\* clock crosses the expiry of the sessions (SpecRefresh)
RefreshUsers == 1
RefreshDevices == 1
RefreshTokens == 2
RefreshSessions == 2
RefreshIps == 2
RefreshHours == 0
RefreshWindows == 2
\* sign-ins of one user whose store is drawn from the stores that hold at
\* most one session for each of DetectDevices devices (SpecDetect)
DetectDevices == 6
DetectSignIn == 1
\* sign-ins, sign-ups and refreshes, one at a time, on a store that holds a
\* fresh session for each of DetectDevices devices, or for all but the last
\* (SpecCarry)
CarryInserts == 3
CarrySignIn == 1
CarryHours == 1
\* requests to the gold-history routes (SpecGold)
MaxGoldCalls == 2
MaxGoldDay == 1
MaxGoldPrice == 1
MaxSeedDays == 2
\* requests of two users to the product and savings-log routes (SpecShop)
MaxShopReq == 2
MaxProducts == 1
MaxLogs == 1
MaxName == 1
\* calls of fetchGoldPrices while the cache ages, in minutes (SpecCache)
MaxFetches == 2
MaxCacheClock == 6
MaxGoldData == 2
\* calls of storeTodayGoldPrice from the startup, the cron job and the
\* store-today route (SpecStore)
MaxStoreCalls == 3
MaxStoreDay == 1
MaxStorePrice == 1

\* --------------------------------------------------- program constants --
RefreshTokenDays == 30
RefreshWindow == RefreshTokenDays * 24
RecentWindow == 1
MaxActiveSessions == 5
MaxRecentDevices == 3
DefaultBasePrice == 7000000
CacheDuration == 5

NoDate == -1
NoToken == 0
NoSession == 0

Users == 1..MaxUsers
Reqs == 1..MaxReq
TickSteps == {RecentWindow, RefreshWindow}

VARIABLES
  users,      \* User collection: user id -> [exists, isActive]
  sessions,   \* RefreshToken collection, in insertion order; _id = index
  now,        \* the clock
  reqs,       \* request slot -> the request it holds and where it stands
  pre,        \* the store as it was when the running serial request began
  gold,       \* GoldPriceHistory collection, the UTC day, and the calls of
              \* the gold-history service that are in flight; the cache of
              \* the gold price service, its clock in minutes, and the calls
              \* of fetchGoldPrices that are in flight
  shop        \* Product and SavingsLog collections, _id = index, and the
              \* requests to their routes that are in flight

vars == <<users, sessions, now, reqs, pre, gold, shop>>

\* ------------------------------------------------------------ helpers --
Range(s) == {s[i] : i \in DOMAIN s}

Max(S) == IF S = {} THEN 0 ELSE CHOOSE x \in S : \A y \in S : y <= x

EmptySession ==
  [userId |-> 0, token |-> NoToken, deviceId |-> 0, createdAt |-> NoDate,
   expiresAt |-> NoDate, isRevoked |-> FALSE, revokedAt |-> NoDate,
   replacedByToken |-> NoToken, usageCount |-> 0, lastUsedAt |-> NoDate,
   ipAddress |-> 0, suspiciousActivity |-> FALSE]

Idle ==
  [op |-> "none", pc |-> "idle", userId |-> 0, deviceId |-> 0, token |-> NoToken,
   pwOk |-> FALSE, sid |-> NoSession, doc |-> EmptySession,
   uExists |-> FALSE, uActive |-> FALSE, newToken |-> NoToken,
   susp |-> FALSE, count |-> 0, recent |-> 0, list |-> {}, res |-> "none"]

InFlight(r) == reqs[r].pc \notin {"idle", "done"}

\* getRefreshTokenExpiryDate: now + 30 days
getRefreshTokenExpiryDate(t) == t + RefreshWindow

\* The filter {isRevoked: false, expiresAt: {$gt: new Date()}}
Usable(s, t) == ~s.isRevoked /\ s.expiresAt > t

\* A query for the active sessions that forgets the expiresAt filter.
UnrevokedOf(store, u, t) ==
  {i \in DOMAIN store : store[i].userId = u /\ ~store[i].isRevoked}

\* RefreshToken.find({userId, isRevoked: false, expiresAt: {$gt: now}})
ActiveOf(store, u, t) ==
  {i \in DOMAIN store : store[i].userId = u /\ Usable(store[i], t)}

\* RefreshToken.find({userId, createdAt: {$gt: now - 1h}})
RecentOf(store, u, t) ==
  {i \in DOMAIN store : store[i].userId = u /\ store[i].createdAt > t - RecentWindow}

RecentDevices(store, u, t) == {store[i].deviceId : i \in RecentOf(store, u, t)}

\* RefreshToken.findOne({token})
FindByToken(store, t) ==
  IF \E i \in DOMAIN store : store[i].token = t
    THEN CHOOSE i \in DOMAIN store : store[i].token = t
    ELSE NoSession

\* A lookup that forgets the isRevoked filter.
FindAnyByToken(store, t) == FindByToken(store, t)

\* RefreshToken.findOne({token, isRevoked: false})
FindUnrevokedByToken(store, t) ==
  IF \E i \in DOMAIN store : store[i].token = t /\ ~store[i].isRevoked
    THEN CHOOSE i \in DOMAIN store : store[i].token = t /\ ~store[i].isRevoked
    ELSE NoSession

\* A lookup by _id that forgets the userId filter.
FindById(store, sid, u) == IF sid \in DOMAIN store THEN sid ELSE NoSession

\* RefreshToken.findOne({_id: sessionId, userId})
FindByIdAndUser(store, sid, u) ==
  IF sid \in DOMAIN store /\ store[sid].userId = u THEN sid ELSE NoSession

\* updateMany(filter, {$set: {isRevoked: true, revokedAt: now}})
RevokeWhere(store, matched, t) ==
  [i \in DOMAIN store |->
     IF i \in matched
       THEN [store[i] EXCEPT !.isRevoked = TRUE, !.revokedAt = t]
       ELSE store[i]]

\* A store without the unique index: no insert is rejected.
TokenNeverTaken(store, t) == FALSE

\* The unique index on `token`: an insert of a stored token is rejected.
TokenTaken(store, t) == \E i \in DOMAIN store : store[i].token = t

\* generateRefreshToken draws a random string.  Token values are opaque, so
\* a draw is either one of the values already known to the system (a
\* collision) or the first value not yet drawn.
KnownTokens ==
  {sessions[i].token : i \in DOMAIN sessions} \cup {reqs[r].newToken : r \in Reqs}

generateRefreshToken(maxTok) == {t \in 1..maxTok : t <= Max(KnownTokens) + 1}

\* A session built with the flag getSecurityInfo starts from, whatever the
\* caller passes.
NewSessionUnflagged(u, tok, d, t, usage, ip, susp) ==
  [userId |-> u, token |-> tok, deviceId |-> d, createdAt |-> t,
   expiresAt |-> getRefreshTokenExpiryDate(t), isRevoked |-> FALSE,
   revokedAt |-> NoDate, replacedByToken |-> NoToken, usageCount |-> usage,
   lastUsedAt |-> t, ipAddress |-> ip, suspiciousActivity |-> FALSE]

NewSession(u, tok, d, t, usage, ip, susp) ==
  [userId |-> u, token |-> tok, deviceId |-> d, createdAt |-> t,
   expiresAt |-> getRefreshTokenExpiryDate(t), isRevoked |-> FALSE,
   revokedAt |-> NoDate, replacedByToken |-> NoToken, usageCount |-> usage,
   lastUsedAt |-> t, ipAddress |-> ip, suspiciousActivity |-> susp]

\* A request ends: the slot keeps the operation, the presented secret or
\* user, and the response.
Done(q, result) ==
  [Idle EXCEPT !.op = q.op, !.pc = "done", !.token = q.token, !.res = result]

NoPre == [sessions |-> <<>>, now |-> 0]

\* ------------------------------------------------- gold price history --
GoldCalls == 1..MaxGoldCalls

StoreCalls == 1..MaxStoreCalls

\* Who sends a request: no access token, a user who is no admin, an admin
\* whose account is deactivated, an active admin.
Callers == {"anonymous", "user", "inactiveAdmin", "admin"}

NoCall ==
  [op |-> "none", pc |-> "idle", caller |-> "anonymous", today |-> 0,
   basePrice |-> 0, price |-> 0, days |-> 0, i |-> 0, res |-> "none"]

CallInFlight(c) == gold.calls[c].pc \notin {"idle", "done"}

CallDone(q, result) == [NoCall EXCEPT !.op = q.op, !.pc = "done", !.res = result]

\* goldPriceCache: null until the first successful call of the API
NoData == 0

NoCache == [data |-> NoData, timestamp |-> NoDate]

Fetches == 1..MaxFetches

\* A call of fetchGoldPrices: where it stands, whether it called the API
\* and how that went, and what it returned.
NoFetch == [pc |-> "idle", upstream |-> "none", res |-> "none", data |-> NoData]

GoldInit ==
  [history |-> <<>>, day |-> 0, calls |-> [c \in GoldCalls \cup StoreCalls |-> NoCall],
   cache |-> NoCache, clock |-> 0, fetches |-> [f \in Fetches |-> NoFetch]]

\* ------------------------------------------- products and savings logs --
ShopReqs == 1..MaxShopReq

NoProduct == 0

NoLog == 0

\* A request to the product or savings-log routes: the authenticated user,
\* the id in the path or body, and the document the handler has loaded.
NoShopReq ==
  [op |-> "none", pc |-> "idle", userId |-> 0, id |-> 0, name |-> 0,
   wish |-> FALSE, res |-> "none"]

ShopInFlight(s) == shop.reqs[s].pc \notin {"idle", "done"}

\* A request ends: the slot keeps the operation, the user, the id and the
\* response.
ShopDone(q, result) ==
  [NoShopReq EXCEPT !.op = q.op, !.pc = "done", !.userId = q.userId, !.id = q.id,
                    !.res = result]

\* A deleted document keeps its place: an ObjectId is never handed out again.
ShopInit == [products |-> <<>>, logs |-> <<>>, reqs |-> [s \in ShopReqs |-> NoShopReq]]

\* ------------------------------------------------------ initial state --
Init ==
  /\ users = [u \in Users |-> [exists |-> FALSE, isActive |-> FALSE]]
  /\ sessions = <<>>
  /\ now = 0
  /\ reqs = [r \in Reqs |-> Idle]
  /\ pre = NoPre
  /\ gold = GoldInit
  /\ shop = ShopInit

\* The snapshot lasts as long as the request it belongs to.
KeepPre(r) == pre' = IF reqs'[r].pc = "done" THEN NoPre ELSE pre

\* A request enters slot r.  Serial requests run one at a time in slot 1
\* and record the store they start from.
Begin(r, q, serial) ==
  /\ ~InFlight(r)
  /\ serial => (r = 1 /\ \A o \in Reqs : ~InFlight(o))
  /\ reqs' = [reqs EXCEPT ![r] = q]
  /\ pre' = IF serial THEN [sessions |-> sessions, now |-> now]
                      ELSE pre
  /\ UNCHANGED <<users, sessions, now, gold, shop>>

\* Requests that insert a session start only while the store has room.
Room(cap) ==
  Len(sessions) + Cardinality({r \in Reqs : InFlight(r) /\ reqs[r].op \in {"signUp", "signIn", "refresh"}}) < cap

\* The clock moves by an hour or by a whole expiry window, at most hours
\* hours past at most windows windows.
Tick(d, serial, hours, windows) ==
  /\ d = RecentWindow => (now % RefreshWindow) + d <= hours
  /\ d = RefreshWindow => (now \div RefreshWindow) < windows
  /\ serial => \A o \in Reqs : ~InFlight(o)
  /\ now' = now + d
  /\ UNCHANGED <<users, sessions, reqs, pre, gold, shop>>


\* ------------------------------------------------------------- signUp --
\* signUp: User.findOne({email})
SignUpFind(r, u, d, serial, cap) ==
  /\ Room(cap)
  /\ Begin(r, [Idle EXCEPT !.op = "signUp", !.pc = "su_user", !.userId = u,
                           !.deviceId = d, !.uExists = users[u].exists], serial)

\* signUp: 400 when the user exists, else user.save() (and profile.save(),
\* which touches no session).  A new user is active, as signIn right after
\* signUp requires; a second user document for the same email is rejected
\* and the handler answers 500.
SignUpSaveUser(r) ==
  LET q == reqs[r] IN
  /\ q.pc = "su_user"
  /\ IF q.uExists
       THEN /\ reqs' = [reqs EXCEPT ![r] = Done(q, "UserExists")]
            /\ UNCHANGED users
       ELSE IF users[q.userId].exists
         THEN /\ reqs' = [reqs EXCEPT ![r] = Done(q, "InternalError")]
              /\ UNCHANGED users
         ELSE /\ users' = [users EXCEPT ![q.userId] = [exists |-> TRUE, isActive |-> TRUE]]
              /\ reqs' = [reqs EXCEPT ![r].pc = "su_token"]
  /\ UNCHANGED <<sessions, now, gold, shop>>
  /\ KeepPre(r)

\* signUp: refreshToken.save() and the 201 response
SignUpSaveToken(r, tok, ip) ==
  LET q == reqs[r] IN
  /\ q.pc = "su_token"
  /\ IF TokenTaken(sessions, tok)
       THEN /\ reqs' = [reqs EXCEPT ![r] = Done(q, "InternalError")]
            /\ UNCHANGED sessions
       ELSE /\ sessions' = Append(sessions, NewSession(q.userId, tok, q.deviceId, now, 1, ip, FALSE))
            /\ reqs' = [reqs EXCEPT ![r] = [Done(q, "Created") EXCEPT !.newToken = tok]]
  /\ UNCHANGED <<users, now, gold, shop>>
  /\ KeepPre(r)

\* ------------------------------------------------------------- signIn --
\* signIn: User.findOne({email})
SignInFind(r, u, d, pw, serial, cap) ==
  /\ Room(cap)
  /\ Begin(r, [Idle EXCEPT !.op = "signIn", !.pc = "si_active", !.userId = u,
                           !.deviceId = d, !.pwOk = pw,
                           !.uExists = users[u].exists,
                           !.uActive = users[u].isActive], serial)

\* A sign-in that revokes the sessions of the presented device before it
\* checks the password.
SignInActiveRevoking(r) ==
  LET q == reqs[r]
      matched == {i \in DOMAIN sessions :
                    /\ sessions[i].userId = q.userId
                    /\ sessions[i].deviceId = q.deviceId
                    /\ ~sessions[i].isRevoked}
  IN
  /\ q.pc = "si_active"
  /\ reqs' = [reqs EXCEPT ![r] =
       IF ~q.uExists THEN Done(q, "InvalidCredentials")
       ELSE IF ~q.uActive THEN Done(q, "AccountDeactivated")
       ELSE IF ~q.pwOk THEN Done(q, "InvalidCredentials")
       ELSE [q EXCEPT !.pc = "si_recent",
                      !.count = Cardinality(ActiveOf(sessions, q.userId, now))]]
  /\ sessions' = IF q.uExists /\ q.uActive THEN RevokeWhere(sessions, matched, now)
                                             ELSE sessions
  /\ UNCHANGED <<users, now, gold, shop>>
  /\ KeepPre(r)

\* signIn: the credential checks, then the detector's first query
SignInActive(r) ==
  LET q == reqs[r] IN
  /\ q.pc = "si_active"
  /\ reqs' = [reqs EXCEPT ![r] =
       IF ~q.uExists THEN Done(q, "InvalidCredentials")
       ELSE IF ~q.uActive THEN Done(q, "AccountDeactivated")
       ELSE IF ~q.pwOk THEN Done(q, "InvalidCredentials")
       ELSE [q EXCEPT !.pc = "si_recent",
                      !.count = Cardinality(ActiveOf(sessions, q.userId, now))]]
  /\ UNCHANGED <<users, sessions, now, gold, shop>>
  /\ KeepPre(r)

\* A sign-in revocation that forgets the deviceId filter.
RevokeEveryDevice(store, u, d, t) ==
  LET matched == {i \in DOMAIN store : store[i].userId = u /\ ~store[i].isRevoked}
  IN  RevokeWhere(store, matched, t)

\* The same-device revocation of signIn
RevokeSameDevice(store, u, d, t) ==
  LET matched == {i \in DOMAIN store :
                     store[i].userId = u /\ store[i].deviceId = d /\ ~store[i].isRevoked}
  IN  RevokeWhere(store, matched, t)

\* Rule A with the threshold off by one.
RuleAInclusive(count) == count >= MaxActiveSessions

\* detectSuspiciousActivity: more than 5 active sessions
RuleA(count) == count > MaxActiveSessions

\* Rule B with the threshold off by one, as when the device of the sign-in
\* is counted with the stored ones.
RuleBInclusive(devices) == devices >= MaxRecentDevices

\* detectSuspiciousActivity: more than 3 devices within the last hour
RuleB(devices) == devices > MaxRecentDevices

\* signIn: Rule A decides, or the detector's second query runs
SignInRecent(r) ==
  LET q == reqs[r] IN
  /\ q.pc = "si_recent"
  /\ IF RuleA(q.count)
       THEN /\ sessions' = RevokeSameDevice(sessions, q.userId, q.deviceId, now)
            /\ reqs' = [reqs EXCEPT ![r].pc = "si_insert", ![r].susp = TRUE]
       ELSE /\ reqs' = [reqs EXCEPT ![r].pc = "si_revoke",
                          ![r].recent = Cardinality(RecentDevices(sessions, q.userId, now))]
            /\ UNCHANGED sessions
  /\ UNCHANGED <<users, now, gold, shop>>
  /\ KeepPre(r)

\* signIn: Rule B decides, then the same-device revocation
SignInRevoke(r) ==
  LET q == reqs[r] IN
  /\ q.pc = "si_revoke"
  /\ sessions' = RevokeSameDevice(sessions, q.userId, q.deviceId, now)
  /\ reqs' = [reqs EXCEPT ![r].pc = "si_insert",
                          ![r].susp = RuleB(q.recent)]
  /\ UNCHANGED <<users, now, gold, shop>>
  /\ KeepPre(r)

\* signIn: refreshToken.save() and the 200 response
SignInInsert(r, tok, ip) ==
  LET q == reqs[r] IN
  /\ q.pc = "si_insert"
  /\ IF TokenTaken(sessions, tok)
       THEN /\ reqs' = [reqs EXCEPT ![r] = Done(q, "InternalError")]
            /\ UNCHANGED sessions
       ELSE /\ sessions' = Append(sessions, NewSession(q.userId, tok, q.deviceId, now, 1, ip, q.susp))
            /\ reqs' = [reqs EXCEPT ![r] = [Done(q, "ok") EXCEPT !.newToken = tok, !.susp = q.susp]]
  /\ UNCHANGED <<users, now, gold, shop>>
  /\ KeepPre(r)

\* ------------------------------------------------------------ refresh --
\* refreshAccessToken: RefreshToken.findOne({token, isRevoked: false})
RefreshFind(r, t, serial, cap) ==
  LET sid == FindUnrevokedByToken(sessions, t) IN
  /\ Room(cap)
  /\ Begin(r, [Idle EXCEPT !.op = "refresh", !.pc = "rf_user", !.token = t,
                           !.sid = sid,
                           !.doc = IF sid = NoSession THEN EmptySession ELSE sessions[sid]],
           serial)

\* The expiry check of refreshAccessToken
Expired(doc, t) == doc.expiresAt < t

\* A refresh that saves the touch of securityInfo before it looks at the
\* user.
RefreshUserTouching(r) ==
  LET q == reqs[r]
      live == q.sid # NoSession /\ ~Expired(q.doc, now)
  IN
  /\ q.pc = "rf_user"
  /\ reqs' = [reqs EXCEPT ![r] =
       IF q.sid = NoSession THEN Done(q, "InvalidRefreshToken")
       ELSE IF Expired(q.doc, now) THEN Done(q, "RefreshTokenExpired")
       ELSE [q EXCEPT !.pc = "rf_save",
                      !.uExists = users[q.doc.userId].exists,
                      !.uActive = users[q.doc.userId].isActive]]
  /\ sessions' = IF live
       THEN [sessions EXCEPT ![q.sid].lastUsedAt = now,
                             ![q.sid].usageCount = q.doc.usageCount + 1]
       ELSE sessions
  /\ UNCHANGED <<users, now, gold, shop>>
  /\ KeepPre(r)

\* refreshAccessToken: not found, expired, else User.findById
RefreshUser(r) ==
  LET q == reqs[r] IN
  /\ q.pc = "rf_user"
  /\ reqs' = [reqs EXCEPT ![r] =
       IF q.sid = NoSession THEN Done(q, "InvalidRefreshToken")
       ELSE IF Expired(q.doc, now) THEN Done(q, "RefreshTokenExpired")
       ELSE [q EXCEPT !.pc = "rf_save",
                      !.uExists = users[q.doc.userId].exists,
                      !.uActive = users[q.doc.userId].isActive]]
  /\ UNCHANGED <<users, sessions, now, gold, shop>>
  /\ KeepPre(r)

\* A rotation that forgets the forward pointer.
RotatedUnlinked(s, doc, tok, ip, t) ==
  [s EXCEPT !.lastUsedAt = t, !.usageCount = doc.usageCount + 1, !.ipAddress = ip,
            !.isRevoked = TRUE, !.revokedAt = t]

\* A rotation that links the successor and leaves the revocation for later.
RotatedLate(s, doc, tok, ip, t) ==
  [s EXCEPT !.lastUsedAt = t, !.usageCount = doc.usageCount + 1, !.ipAddress = ip,
            !.replacedByToken = tok]

\* What storedToken.save() writes in refreshAccessToken
Rotated(s, doc, tok, ip, t) ==
  [s EXCEPT !.lastUsedAt = t, !.usageCount = doc.usageCount + 1, !.ipAddress = ip,
            !.isRevoked = TRUE, !.revokedAt = t, !.replacedByToken = tok]

\* refreshAccessToken: user check, then storedToken.save(); ip is the
\* address the request comes from
RefreshSave(r, tok, ip) ==
  LET q == reqs[r] IN
  /\ q.pc = "rf_save"
  /\ IF ~q.uExists \/ ~q.uActive
       THEN /\ reqs' = [reqs EXCEPT ![r] = Done(q, "UserInactive")]
            /\ UNCHANGED sessions
       ELSE /\ sessions' = [sessions EXCEPT ![q.sid] = Rotated(@, q.doc, tok, ip, now)]
            /\ reqs' = [reqs EXCEPT ![r].pc = "rf_insert", ![r].newToken = tok,
                                    ![r].doc.ipAddress = ip]
  /\ UNCHANGED <<users, now, gold, shop>>
  /\ KeepPre(r)

\* A successor that inherits the expiry of the session it replaces.
SuccessorInheriting(doc, tok, t) ==
  [NewSession(doc.userId, tok, doc.deviceId, t, 0, doc.ipAddress, doc.suspiciousActivity)
     EXCEPT !.expiresAt = doc.expiresAt]

\* A successor that starts from the usageCount of a new login.
SuccessorCounted(doc, tok, t) ==
  NewSession(doc.userId, tok, doc.deviceId, t, 1, doc.ipAddress, doc.suspiciousActivity)

\* A successor that starts from the securityInfo of a new login: unflagged.
SuccessorUnflagged(doc, tok, t) ==
  NewSession(doc.userId, tok, doc.deviceId, t, 0, doc.ipAddress, FALSE)

\* The session refreshAccessToken builds from the one it has rotated:
\* userId, deviceInfo, ipAddress and suspiciousActivity are copied,
\* usageCount is 0, lastUsedAt and expiresAt are taken from the clock.
Successor(doc, tok, t) ==
  NewSession(doc.userId, tok, doc.deviceId, t, 0, doc.ipAddress, doc.suspiciousActivity)

\* refreshAccessToken: newRefreshToken.save() and the 200 response
RefreshInsert(r) ==
  LET q == reqs[r] IN
  /\ q.pc = "rf_insert"
  /\ IF TokenTaken(sessions, q.newToken)
       THEN /\ reqs' = [reqs EXCEPT ![r] = Done(q, "InternalError")]
            /\ UNCHANGED sessions
       ELSE /\ sessions' = Append(sessions, Successor(q.doc, q.newToken, now))
            /\ reqs' = [reqs EXCEPT ![r] = [Done(q, "ok") EXCEPT !.newToken = q.newToken]]
  /\ UNCHANGED <<users, now, gold, shop>>
  /\ KeepPre(r)

\* ------------------------------------------------------------- logout --
\* A plain revocation that also drops the forward pointer.
RevokedUnlinking(s, t) ==
  [s EXCEPT !.isRevoked = TRUE, !.revokedAt = t, !.replacedByToken = NoToken]

\* What session.save() writes in logout and revokeSession
Revoked(s, t) == [s EXCEPT !.isRevoked = TRUE, !.revokedAt = t]

\* logout: RefreshToken.findOne({token})
LogoutFind(r, t, serial) ==
  Begin(r, [Idle EXCEPT !.op = "logout", !.pc = "lo_save", !.token = t,
                        !.sid = FindByToken(sessions, t)], serial)

\* logout: storedToken.save() when a session was found; always 200
LogoutSave(r) ==
  LET q == reqs[r] IN
  /\ q.pc = "lo_save"
  /\ sessions' = IF q.sid = NoSession THEN sessions
                 ELSE [sessions EXCEPT ![q.sid] = Revoked(@, now)]
  /\ reqs' = [reqs EXCEPT ![r] = Done(q, "ok")]
  /\ UNCHANGED <<users, now, gold, shop>>
  /\ KeepPre(r)

\* logoutAllDevices: one updateMany and the 200 response
LogoutAll(r, u, serial) ==
  LET matched == {i \in DOMAIN sessions : sessions[i].userId = u /\ ~sessions[i].isRevoked} IN
  /\ users[u].exists
  /\ ~InFlight(r)
  /\ serial => (r = 1 /\ \A o \in Reqs : ~InFlight(o))
  /\ sessions' = RevokeWhere(sessions, matched, now)
  /\ reqs' = [reqs EXCEPT ![r] =
       [Done(Idle, "ok") EXCEPT !.op = "logoutAll",
          !.count = Cardinality(matched)]]
  /\ pre' = NoPre
  /\ UNCHANGED <<users, now, gold, shop>>

\* getActiveSessions: one find and the 200 response, which lists the ids of
\* the sessions found (the sort by lastUsedAt orders the list only)
GetActiveSessions(r, u, serial) ==
  /\ users[u].exists
  /\ ~InFlight(r)
  /\ serial => (r = 1 /\ \A o \in Reqs : ~InFlight(o))
  /\ reqs' = [reqs EXCEPT ![r] =
       [Done(Idle, "ok") EXCEPT !.op = "sessions",
          !.list = ActiveOf(sessions, u, now)]]
  /\ pre' = NoPre
  /\ UNCHANGED <<users, sessions, now, gold, shop>>

\* revokeSession: RefreshToken.findOne({_id: sessionId, userId})
RevokeFind(r, u, sid, serial) ==
  /\ users[u].exists
  /\ Begin(r, [Idle EXCEPT !.op = "revokeSession", !.pc = "rs_save", !.userId = u,
                           !.token = sid,
                           !.sid = FindByIdAndUser(sessions, sid, u)], serial)

\* revokeSession: 404, or session.save() and 200
RevokeSave(r) ==
  LET q == reqs[r] IN
  /\ q.pc = "rs_save"
  /\ IF q.sid = NoSession
       THEN /\ reqs' = [reqs EXCEPT ![r] = Done(q, "SessionNotFound")]
            /\ UNCHANGED sessions
       ELSE /\ sessions' = [sessions EXCEPT ![q.sid] = Revoked(@, now)]
            /\ reqs' = [reqs EXCEPT ![r] = Done(q, "ok")]
  /\ UNCHANGED <<users, now, gold, shop>>
  /\ KeepPre(r)

\* --------------------------------------------------- toggleUserStatus --
\* toggleUserStatus: User.findById
ToggleFind(r, u, serial) ==
  Begin(r, [Idle EXCEPT !.op = "toggle", !.pc = "tg_save", !.userId = u,
                        !.uExists = users[u].exists,
                        !.uActive = users[u].isActive], serial)

\* toggleUserStatus: 404, or user.save() of the flipped flag
ToggleSave(r) ==
  LET q == reqs[r] IN
  /\ q.pc = "tg_save"
  /\ IF ~q.uExists
       THEN /\ reqs' = [reqs EXCEPT ![r] = Done(q, "UserNotFound")]
            /\ UNCHANGED users
       ELSE /\ users' = [users EXCEPT ![q.userId].isActive = ~q.uActive]
            /\ reqs' = [reqs EXCEPT ![r] =
                 IF ~q.uActive THEN [Done(q, "ok") EXCEPT !.uActive = TRUE]
                 ELSE [q EXCEPT !.pc = "tg_revoke", !.uActive = FALSE]]
  /\ UNCHANGED <<sessions, now, gold, shop>>
  /\ KeepPre(r)

\* A cascade that forgets the userId filter.
RevokeAllUsers(store, u, t) ==
  LET matched == {i \in DOMAIN store : ~store[i].isRevoked}
  IN  RevokeWhere(store, matched, t)

\* The cascade of toggleUserStatus
RevokeAllOfUser(store, u, t) ==
  LET matched == {i \in DOMAIN store : store[i].userId = u /\ ~store[i].isRevoked}
  IN  RevokeWhere(store, matched, t)

\* toggleUserStatus: the updateMany of a deactivation and the 200 response
ToggleRevoke(r) ==
  LET q == reqs[r] IN
  /\ q.pc = "tg_revoke"
  /\ sessions' = RevokeAllOfUser(sessions, q.userId, now)
  /\ reqs' = [reqs EXCEPT ![r] = Done(q, "ok")]
  /\ UNCHANGED <<users, now, gold, shop>>
  /\ KeepPre(r)

\* ------------------------------------------------ gold-history routes --
\* What a middleware lets through.
Admits(mw, caller) ==
  CASE mw = "authenticateToken" -> caller # "anonymous"
    [] mw = "requireAdmin" -> caller = "admin"

\* The middleware in front of POST /store-today and POST /seed: the router
\* registers the two handlers alone, and the application mounts the router
\* with no middleware of its own.
GoldHistoryGuards == <<>>

Passes(guards, caller) == \A k \in DOMAIN guards : Admits(guards[k], caller)

\* GoldPriceHistory.findOne({date})
HasDate(history, d) == \E k \in DOMAIN history : history[k].date = d

GoldRecord(p, d, src) == [price |-> p, date |-> d, source |-> src]

\* POST /store-today: the middleware, then storeTodayGoldPrice up to its
\* findOne({date: today}); a day that has its record answers 200 at once.
StoreTodayFind(c, caller) ==
  LET q == [NoCall EXCEPT !.op = "storeToday", !.caller = caller, !.today = gold.day] IN
  /\ ~CallInFlight(c)
  /\ gold' = [gold EXCEPT !.calls[c] =
       IF ~Passes(GoldHistoryGuards, caller) THEN CallDone(q, "rejected")
       ELSE IF HasDate(gold.history, q.today) THEN CallDone(q, "ok")
       ELSE [q EXCEPT !.pc = "st_fetch"]]
  /\ UNCHANGED <<users, sessions, now, reqs, pre, shop>>

\* Who calls storeTodayGoldPrice besides the route: startServer, once the
\* database is connected, and the daily cron job.
Origins == {"startup", "cron"}

\* startServer and the cron job: storeTodayGoldPrice up to its
\* findOne({date: today}); a day that has its record returns at once.
StoreTodayDirect(c, origin) ==
  LET q == [NoCall EXCEPT !.op = origin, !.today = gold.day] IN
  /\ ~CallInFlight(c)
  /\ gold' = [gold EXCEPT !.calls[c] =
       IF HasDate(gold.history, q.today) THEN CallDone(q, "ok")
       ELSE [q EXCEPT !.pc = "st_fetch"]]
  /\ UNCHANGED <<users, sessions, now, reqs, pre, shop>>

\* storeTodayGoldPrice: fetchCurrentGoldPrice resolves with a price or
\* throws; no price, or one that is not positive, throws, and the
\* handler answers 500.
StoreTodayFetch(c, ok, p) ==
  LET q == gold.calls[c] IN
  /\ q.pc = "st_fetch"
  /\ gold' = [gold EXCEPT !.calls[c] =
       IF ~ok \/ p <= 0 THEN CallDone(q, "error")
       ELSE [q EXCEPT !.pc = "st_save", !.price = p]]
  /\ UNCHANGED <<users, sessions, now, reqs, pre, shop>>

\* A save into a collection that has no unique index on date.
StoreTodaySaveUnindexed(c) ==
  LET q == gold.calls[c] IN
  /\ q.pc = "st_save"
  /\ gold' = [gold EXCEPT !.calls[c] = CallDone(q, "ok"),
                          !.history = Append(@, GoldRecord(q.price, q.today, "tgju.org"))]
  /\ UNCHANGED <<users, sessions, now, reqs, pre, shop>>

\* storeTodayGoldPrice: priceRecord.save() under the unique index on date,
\* and the response
StoreTodaySave(c) ==
  LET q == gold.calls[c] IN
  /\ q.pc = "st_save"
  /\ gold' = IF HasDate(gold.history, q.today)
       THEN [gold EXCEPT !.calls[c] = CallDone(q, "error")]
       ELSE [gold EXCEPT !.calls[c] = CallDone(q, "ok"),
                         !.history = Append(@, GoldRecord(q.price, q.today, "tgju.org"))]
  /\ UNCHANGED <<users, sessions, now, reqs, pre, shop>>

\* POST /seed: the middleware, then seedHistoricalPrices up to its
\* fetchCurrentGoldPrice; days is the parsed query parameter.
SeedStart(c, caller, days) ==
  LET q == [NoCall EXCEPT !.op = "seed", !.caller = caller, !.days = days] IN
  /\ ~CallInFlight(c)
  /\ gold' = [gold EXCEPT !.calls[c] =
       IF ~Passes(GoldHistoryGuards, caller) THEN CallDone(q, "rejected")
       ELSE [q EXCEPT !.pc = "sd_fetch"]]
  /\ UNCHANGED <<users, sessions, now, reqs, pre, shop>>

\* The percentages Math.random() gives the daily variation: -2% to +2%.
Variations == {-2, 0, 2}

\* Math.round(basePrice * (1 + variation * (i / days)))
SeedPrice(base, v, i, days) ==
  base + ((2 * base * v * i + 100 * days) \div (2 * 100 * days))

\* The loop of seedHistoricalPrices at index q.i: findOne({date}) for the
\* day i days before today; a day that has its record is skipped.
SeedAt(q, history) ==
  IF q.i < 0 THEN CallDone(q, "ok")
  ELSE IF ~HasDate(history, q.today - q.i) THEN [q EXCEPT !.pc = "sd_save"]
  ELSE IF q.i = 0 THEN CallDone(q, "ok")
  ELSE [q EXCEPT !.pc = "sd_find", !.i = q.i - 1]

\* seedHistoricalPrices: the fetch resolves or throws (then the default
\* base price is used), today is read, and the loop starts.
SeedFetched(c, ok, p) ==
  LET q == gold.calls[c] IN
  /\ q.pc = "sd_fetch"
  /\ gold' = [gold EXCEPT !.calls[c] =
       SeedAt([q EXCEPT !.basePrice = IF ok /\ p > 0 THEN p ELSE DefaultBasePrice,
                        !.today = gold.day, !.i = q.days - 1],
              gold.history)]
  /\ UNCHANGED <<users, sessions, now, reqs, pre, shop>>

\* seedHistoricalPrices: the findOne of the next day
SeedFind(c) ==
  LET q == gold.calls[c] IN
  /\ q.pc = "sd_find"
  /\ gold' = [gold EXCEPT !.calls[c] = SeedAt(q, gold.history)]
  /\ UNCHANGED <<users, sessions, now, reqs, pre, shop>>

\* seedHistoricalPrices: priceRecord.save() under the unique index on date;
\* a rejected save throws and the handler answers 500.
SeedSave(c, v) ==
  LET q == gold.calls[c]
      date == q.today - q.i
  IN
  /\ q.pc = "sd_save"
  /\ gold' = IF HasDate(gold.history, date)
       THEN [gold EXCEPT !.calls[c] = CallDone(q, "error")]
       ELSE [gold EXCEPT
               !.calls[c] = IF q.i = 0 THEN CallDone(q, "ok")
                            ELSE [q EXCEPT !.pc = "sd_find", !.i = q.i - 1],
               !.history = Append(@, GoldRecord(SeedPrice(q.basePrice, v, q.i, q.days),
                                               date, "seeded"))]
  /\ UNCHANGED <<users, sessions, now, reqs, pre, shop>>

\* The UTC day changes.
GoldMidnight ==
  /\ gold.day < MaxGoldDay
  /\ gold' = [gold EXCEPT !.day = @ + 1]
  /\ UNCHANGED <<users, sessions, now, reqs, pre, shop>>

\* The UTC day changes while calls of storeTodayGoldPrice run.
StoreMidnight ==
  /\ gold.day < MaxStoreDay
  /\ gold' = [gold EXCEPT !.day = @ + 1]
  /\ UNCHANGED <<users, sessions, now, reqs, pre, shop>>

\* --------------------------------------------------- gold price cache --
\* The cache check of fetchGoldPrices
CacheValid(cache, t) == cache # NoCache /\ t - cache.timestamp < CacheDuration

\* fetchGoldPrices: a valid cache is returned at once, else axios.get is
\* issued
FetchStart(f) ==
  /\ gold.fetches[f].pc # "call"
  /\ gold' = [gold EXCEPT !.fetches[f] =
       IF CacheValid(gold.cache, gold.clock)
         THEN [NoFetch EXCEPT !.pc = "done", !.res = "cached", !.data = gold.cache.data]
         ELSE [NoFetch EXCEPT !.pc = "call"]]
  /\ UNCHANGED <<users, sessions, now, reqs, pre, shop>>

\* A fetch that stamps the cache again when the API call has failed.
FetchResolveRestamping(f, ok, d) ==
  LET q == gold.fetches[f] IN
  /\ q.pc = "call"
  /\ gold' =
       IF ok
         THEN [gold EXCEPT !.cache = [data |-> d, timestamp |-> gold.clock],
                           !.fetches[f] = [q EXCEPT !.pc = "done", !.upstream = "ok",
                                                    !.res = "fresh", !.data = d]]
       ELSE IF gold.cache # NoCache
         THEN [gold EXCEPT !.cache.timestamp = gold.clock,
                           !.fetches[f] = [q EXCEPT !.pc = "done", !.upstream = "failed",
                                                    !.res = "stale", !.data = gold.cache.data]]
       ELSE [gold EXCEPT !.fetches[f] = [q EXCEPT !.pc = "done", !.upstream = "failed",
                                                  !.res = "thrown"]]
  /\ UNCHANGED <<users, sessions, now, reqs, pre, shop>>

\* fetchGoldPrices: axios.get resolves with the data d, which replaces the
\* cache, or fails; then the cache, however old, is returned, and with no
\* cache the call throws.
FetchResolve(f, ok, d) ==
  LET q == gold.fetches[f] IN
  /\ q.pc = "call"
  /\ gold' =
       IF ok
         THEN [gold EXCEPT !.cache = [data |-> d, timestamp |-> gold.clock],
                           !.fetches[f] = [q EXCEPT !.pc = "done", !.upstream = "ok",
                                                    !.res = "fresh", !.data = d]]
       ELSE IF gold.cache # NoCache
         THEN [gold EXCEPT !.fetches[f] = [q EXCEPT !.pc = "done", !.upstream = "failed",
                                                    !.res = "stale", !.data = gold.cache.data]]
       ELSE [gold EXCEPT !.fetches[f] = [q EXCEPT !.pc = "done", !.upstream = "failed",
                                                  !.res = "thrown"]]
  /\ UNCHANGED <<users, sessions, now, reqs, pre, shop>>

\* A minute passes on Date.now().
CacheTick ==
  /\ gold.clock < MaxCacheClock
  /\ gold' = [gold EXCEPT !.clock = @ + 1]
  /\ UNCHANGED <<users, sessions, now, reqs, pre, shop>>

\* ------------------------------------------- product and log handlers --
\* A lookup of a product by _id that forgets the userId filter.
FindProductOfAnyUser(products, id, u) ==
  IF id \in DOMAIN products /\ ~products[id].deleted THEN id ELSE NoProduct

\* Product.findOne({_id: id, userId})
FindProduct(products, id, u) ==
  IF id \in DOMAIN products /\ ~products[id].deleted /\ products[id].userId = u
    THEN id ELSE NoProduct

\* SavingsLog.findOne({_id: id, userId})
FindLog(logs, id, u) ==
  IF id \in DOMAIN logs /\ ~logs[id].deleted /\ logs[id].userId = u
    THEN id ELSE NoLog

\* createProduct: get18KGoldPrice resolves or throws, then product.save()
CreateProduct(s, u, name, ok) ==
  LET q == [NoShopReq EXCEPT !.op = "createProduct", !.userId = u] IN
  /\ ~ShopInFlight(s)
  /\ Len(shop.products) < MaxProducts
  /\ shop' = IF ok
       THEN [shop EXCEPT
               !.products = Append(@, [userId |-> u, name |-> name,
                                       isWishlisted |-> FALSE, deleted |-> FALSE]),
               !.reqs[s] = [ShopDone(q, "Created") EXCEPT !.id = Len(shop.products) + 1]]
       ELSE [shop EXCEPT !.reqs[s] = ShopDone(q, "InternalError")]
  /\ UNCHANGED <<users, sessions, now, reqs, pre, gold>>

\* getProductById: one findOne, 404 or 200
GetProductById(s, u, id) ==
  LET q == [NoShopReq EXCEPT !.op = "getProduct", !.userId = u, !.id = id] IN
  /\ ~ShopInFlight(s)
  /\ shop' = [shop EXCEPT !.reqs[s] =
       IF FindProduct(shop.products, id, u) = NoProduct THEN ShopDone(q, "NotFound")
       ELSE ShopDone(q, "ok")]
  /\ UNCHANGED <<users, sessions, now, reqs, pre, gold>>

\* updateProduct: findOne, 404 or the document is loaded
UpdateProductFind(s, u, id, name) ==
  LET q == [NoShopReq EXCEPT !.op = "updateProduct", !.userId = u, !.id = id,
                             !.name = name] IN
  /\ ~ShopInFlight(s)
  /\ shop' = [shop EXCEPT !.reqs[s] =
       IF FindProduct(shop.products, id, u) = NoProduct THEN ShopDone(q, "NotFound")
       ELSE [q EXCEPT !.pc = "up_save"]]
  /\ UNCHANGED <<users, sessions, now, reqs, pre, gold>>

\* updateProduct: product.save() writes the assigned fields by _id; the
\* save of a document that was deleted meanwhile throws, and the handler
\* answers 500.
UpdateProductSave(s) ==
  LET q == shop.reqs[s] IN
  /\ q.pc = "up_save"
  /\ shop' = IF shop.products[q.id].deleted
       THEN [shop EXCEPT !.reqs[s] = ShopDone(q, "InternalError")]
       ELSE [shop EXCEPT !.products[q.id].name = q.name,
                         !.reqs[s] = ShopDone(q, "ok")]
  /\ UNCHANGED <<users, sessions, now, reqs, pre, gold>>

\* deleteProduct: one findOneAndDelete({_id: id, userId}), 404 or 200
DeleteProduct(s, u, id) ==
  LET q == [NoShopReq EXCEPT !.op = "deleteProduct", !.userId = u, !.id = id] IN
  /\ ~ShopInFlight(s)
  /\ shop' = IF FindProduct(shop.products, id, u) = NoProduct
       THEN [shop EXCEPT !.reqs[s] = ShopDone(q, "NotFound")]
       ELSE [shop EXCEPT !.products[id].deleted = TRUE,
                         !.reqs[s] = ShopDone(q, "ok")]
  /\ UNCHANGED <<users, sessions, now, reqs, pre, gold>>

\* toggleWishlist: findOne, 404 or the document is loaded
ToggleWishlistFind(s, u, id) ==
  LET q == [NoShopReq EXCEPT !.op = "toggleWishlist", !.userId = u, !.id = id]
      found == FindProduct(shop.products, id, u)
  IN
  /\ ~ShopInFlight(s)
  /\ shop' = [shop EXCEPT !.reqs[s] =
       IF found = NoProduct THEN ShopDone(q, "NotFound")
       ELSE [q EXCEPT !.pc = "tw_save", !.wish = shop.products[found].isWishlisted]]
  /\ UNCHANGED <<users, sessions, now, reqs, pre, gold>>

\* toggleWishlist: product.save() of the flipped flag
ToggleWishlistSave(s) ==
  LET q == shop.reqs[s] IN
  /\ q.pc = "tw_save"
  /\ shop' = IF shop.products[q.id].deleted
       THEN [shop EXCEPT !.reqs[s] = ShopDone(q, "InternalError")]
       ELSE [shop EXCEPT !.products[q.id].isWishlisted = ~q.wish,
                         !.reqs[s] = ShopDone(q, "ok")]
  /\ UNCHANGED <<users, sessions, now, reqs, pre, gold>>

\* createSavingsLog: with a productId in the body, Product.findOne({_id:
\* productId, userId}) and 404 when it finds none; pid = NoProduct is a body
\* without productId.
CreateSavingsLogFind(s, u, pid) ==
  LET q == [NoShopReq EXCEPT !.op = "createLog", !.userId = u, !.id = pid] IN
  /\ ~ShopInFlight(s)
  /\ Len(shop.logs) + Cardinality({o \in ShopReqs : shop.reqs[o].pc = "lg_save"}) < MaxLogs
  /\ shop' = [shop EXCEPT !.reqs[s] =
       IF pid # NoProduct /\ FindProduct(shop.products, pid, u) = NoProduct
         THEN ShopDone(q, "NotFound")
         ELSE [q EXCEPT !.pc = "lg_save"]]
  /\ UNCHANGED <<users, sessions, now, reqs, pre, gold>>

\* createSavingsLog: savingsLog.save() and the 201 response
CreateSavingsLogSave(s) ==
  LET q == shop.reqs[s] IN
  /\ q.pc = "lg_save"
  /\ shop' = [shop EXCEPT
       !.logs = Append(@, [userId |-> q.userId, productId |-> q.id, deleted |-> FALSE]),
       !.reqs[s] = ShopDone(q, "Created")]
  /\ UNCHANGED <<users, sessions, now, reqs, pre, gold>>

\* deleteSavingsLog: SavingsLog.findOne({_id: id, userId}), 404 or found
DeleteSavingsLogFind(s, u, id) ==
  LET q == [NoShopReq EXCEPT !.op = "deleteLog", !.userId = u, !.id = id] IN
  /\ ~ShopInFlight(s)
  /\ shop' = [shop EXCEPT !.reqs[s] =
       IF FindLog(shop.logs, id, u) = NoLog THEN ShopDone(q, "NotFound")
       ELSE [q EXCEPT !.pc = "dl_delete"]]
  /\ UNCHANGED <<users, sessions, now, reqs, pre, gold>>

\* deleteSavingsLog: SavingsLog.deleteOne({_id: id}) and the 200 response
DeleteSavingsLogDelete(s) ==
  LET q == shop.reqs[s] IN
  /\ q.pc = "dl_delete"
  /\ shop' = [shop EXCEPT !.logs[q.id].deleted = TRUE,
                          !.reqs[s] = ShopDone(q, "ok")]
  /\ UNCHANGED <<users, sessions, now, reqs, pre, gold>>

\* ----------------------------------------------------- specifications --
\* The steps of the requests in flight, the same under every schedule.
\* Sign-ups and sign-ins come from the first address, refreshes from any of
\* ips addresses.
Steps(maxTok, ips) ==
  \E r \in Reqs :
    \/ SignUpSaveUser(r)
    \/ \E tok \in generateRefreshToken(maxTok), ip \in {1} : SignUpSaveToken(r, tok, ip)
    \/ SignInActive(r)
    \/ SignInRecent(r)
    \/ SignInRevoke(r)
    \/ \E tok \in generateRefreshToken(maxTok), ip \in {1} : SignInInsert(r, tok, ip)
    \/ RefreshUser(r)
    \/ \E tok \in generateRefreshToken(maxTok), ip \in 1..ips : RefreshSave(r, tok, ip)
    \/ RefreshInsert(r)
    \/ LogoutSave(r)
    \/ RevokeSave(r)
    \/ ToggleSave(r)
    \/ ToggleRevoke(r)

Arrivals(serial, nu, devs, maxTok, cap) ==
  \E r \in Reqs :
    \/ \E u \in 1..nu, d \in 1..devs : SignUpFind(r, u, d, serial, cap)
    \/ \E u \in 1..nu, d \in 1..devs, pw \in BOOLEAN : SignInFind(r, u, d, pw, serial, cap)
    \/ \E t \in 1..maxTok : RefreshFind(r, t, serial, cap)
    \/ \E t \in 1..maxTok : LogoutFind(r, t, serial)
    \/ \E u \in 1..nu : LogoutAll(r, u, serial)
    \/ \E u \in 1..nu, sid \in 1..cap : RevokeFind(r, u, sid, serial)
    \/ \E u \in 1..nu : ToggleFind(r, u, serial)

\* Requests interleave at their store operations.
Next ==
  \/ Arrivals(FALSE, ConcUsers, ConcDevices, ConcTokens, ConcSessions)
  \/ Steps(ConcTokens, ConcIps)

Spec == Init /\ [][Next]_vars

\* Requests run one at a time.
NextSeq ==
  \/ Arrivals(TRUE, SeqUsers, SeqDevices, SeqTokens, SeqSessions)
  \/ Steps(SeqTokens, SeqIps)

SpecSeq == Init /\ [][NextSeq]_vars

\* Requests of one user on one device run one at a time while the clock
\* crosses the expiry of the sessions.
NextClock ==
  \/ Arrivals(TRUE, ClockUsers, ClockDevices, ClockTokens, ClockSessions)
  \/ Steps(ClockTokens, ClockIps)
  \/ \E r \in Reqs, u \in 1..ClockUsers : GetActiveSessions(r, u, TRUE)
  \/ \E d \in TickSteps : Tick(d, TRUE, ClockHours, ClockWindows)

SpecClock == Init /\ [][NextClock]_vars

\* Sign-ups, refreshes from several addresses and toggles of one user
\* interleave at their store operations while the clock crosses the expiry
\* of the sessions.
NextRefresh ==
  \/ \E r \in Reqs :
       \/ \E u \in 1..RefreshUsers, d \in 1..RefreshDevices :
            SignUpFind(r, u, d, FALSE, RefreshSessions)
       \/ \E t \in 1..RefreshTokens : RefreshFind(r, t, FALSE, RefreshSessions)
       \/ \E u \in 1..RefreshUsers : ToggleFind(r, u, FALSE)
       \/ SignUpSaveUser(r)
       \/ \E tok \in generateRefreshToken(RefreshTokens), ip \in {1} : SignUpSaveToken(r, tok, ip)
       \/ RefreshUser(r)
       \/ \E tok \in generateRefreshToken(RefreshTokens), ip \in 1..RefreshIps :
            RefreshSave(r, tok, ip)
       \/ RefreshInsert(r)
       \/ ToggleSave(r)
       \/ ToggleRevoke(r)
  \/ \E d \in TickSteps : Tick(d, FALSE, RefreshHours, RefreshWindows)

SpecRefresh == Init /\ [][NextRefresh]_vars

\* ------------------------------------------------- detector inputs --
\* What one device holds for the user when the sign-in arrives.
DeviceStates == {"none", "expired", "hourOld", "recent", "revokedRecent"}

SessionOfDevice(d, st, t) ==
  LET born == CASE st = "expired" -> t - RefreshWindow
                [] st = "hourOld" -> t - RecentWindow
                [] OTHER -> t
  IN  [NewSession(1, d, d, born, 1, 1, FALSE) EXCEPT
         !.isRevoked = (st = "revokedRecent"),
         !.revokedAt = IF st = "revokedRecent" THEN t ELSE NoDate]

\* The sessions of the devices in the order of their creation; tokens are
\* handed out again in that order.
RECURSIVE Renumber(_, _)
Renumber(s, k) ==
  IF s = <<>> THEN <<>>
  ELSE <<[Head(s) EXCEPT !.token = k]>> \o Renumber(Tail(s), k + 1)

StoreOf(f, t) ==
  LET all == [d \in 1..DetectDevices |-> SessionOfDevice(d, f[d], t)]
      Has(st) == SelectSeq(all, LAMBDA s : f[s.deviceId] = st)
  IN  Renumber(Has("expired") \o Has("hourOld") \o Has("recent") \o Has("revokedRecent"), 1)

InitDetect ==
  /\ users = [u \in Users |-> [exists |-> u = 1, isActive |-> u = 1]]
  /\ now = RefreshWindow
  /\ \E f \in [1..DetectDevices -> DeviceStates] : sessions = StoreOf(f, now)
  /\ reqs = [r \in Reqs |-> Idle]
  /\ pre = NoPre
  /\ gold = GoldInit
  /\ shop = ShopInit

NextDetect ==
  \/ \E r \in Reqs, d \in 1..DetectSignIn :
       SignInFind(r, 1, d, TRUE, TRUE, DetectDevices + 1)
  \/ \E r \in Reqs :
       \/ SignInActive(r)
       \/ SignInRecent(r)
       \/ SignInRevoke(r)
       \/ \E tok \in generateRefreshToken(DetectDevices + 1) : SignInInsert(r, tok, 1)

SpecDetect == InitDetect /\ [][NextDetect]_vars

\* Sign-ins of the user, sign-ups of a second user and refreshes run one at
\* a time on a store that holds fresh sessions of the user on every device,
\* or on every device but the last, within the hour of their creation and
\* after it; no drawn secret collides.
CarryCap == DetectDevices + CarryInserts

\* The draws of generateRefreshToken that collide with no known value.
FreshTokens(maxTok) == generateRefreshToken(maxTok) \ KnownTokens

InitCarry ==
  /\ users = [u \in Users |-> [exists |-> u = 1, isActive |-> u = 1]]
  /\ now = RefreshWindow
  /\ \E k \in (DetectDevices - 1)..DetectDevices :
       sessions = StoreOf([d \in 1..DetectDevices |-> IF d <= k THEN "recent" ELSE "none"], now)
  /\ reqs = [r \in Reqs |-> Idle]
  /\ pre = NoPre
  /\ gold = GoldInit
  /\ shop = ShopInit

NextCarry ==
  \/ Tick(RecentWindow, TRUE, CarryHours, 0)
  \/ \E r \in Reqs :
      \/ \E d \in 1..CarrySignIn : SignInFind(r, 1, d, TRUE, TRUE, CarryCap)
      \/ \E d \in 1..CarrySignIn : SignUpFind(r, 2, d, TRUE, CarryCap)
      \/ \E t \in 1..CarryCap : RefreshFind(r, t, TRUE, CarryCap)
      \/ SignInActive(r)
      \/ SignInRecent(r)
      \/ SignInRevoke(r)
      \/ \E tok \in FreshTokens(CarryCap) : SignInInsert(r, tok, 1)
      \/ SignUpSaveUser(r)
      \/ \E tok \in FreshTokens(CarryCap) : SignUpSaveToken(r, tok, 1)
      \/ RefreshUser(r)
      \/ \E tok \in FreshTokens(CarryCap) : RefreshSave(r, tok, 1)
      \/ RefreshInsert(r)

SpecCarry == InitCarry /\ [][NextCarry]_vars

\* Requests to the gold-history routes interleave at their awaits.
NextGold ==
  \/ \E c \in GoldCalls, caller \in Callers : StoreTodayFind(c, caller)
  \/ \E c \in GoldCalls, ok \in BOOLEAN, p \in 0..MaxGoldPrice : StoreTodayFetch(c, ok, p)
  \/ \E c \in GoldCalls : StoreTodaySave(c)
  \/ \E c \in GoldCalls, caller \in Callers, days \in 0..MaxSeedDays : SeedStart(c, caller, days)
  \/ \E c \in GoldCalls, ok \in BOOLEAN, p \in 0..MaxGoldPrice : SeedFetched(c, ok, p)
  \/ \E c \in GoldCalls : SeedFind(c)
  \/ \E c \in GoldCalls, v \in Variations : SeedSave(c, v)
  \/ GoldMidnight

SpecGold == Init /\ [][NextGold]_vars

\* The startup call, the cron job and requests to POST /store-today run
\* storeTodayGoldPrice concurrently.
NextStore ==
  \/ \E c \in StoreCalls, origin \in Origins : StoreTodayDirect(c, origin)
  \/ \E c \in StoreCalls : StoreTodayFind(c, "anonymous")
  \/ \E c \in StoreCalls, ok \in BOOLEAN, p \in -1..MaxStorePrice : StoreTodayFetch(c, ok, p)
  \/ \E c \in StoreCalls : StoreTodaySave(c)
  \/ StoreMidnight

SpecStore == Init /\ [][NextStore]_vars

\* Requests of the users to the product and savings-log routes interleave
\* at their store operations.
NextShop ==
  \E s \in ShopReqs :
    \/ \E u \in Users, name \in 0..MaxName, ok \in BOOLEAN : CreateProduct(s, u, name, ok)
    \/ \E u \in Users, id \in 1..MaxProducts : GetProductById(s, u, id)
    \/ \E u \in Users, id \in 1..MaxProducts, name \in 0..MaxName :
         UpdateProductFind(s, u, id, name)
    \/ UpdateProductSave(s)
    \/ \E u \in Users, id \in 1..MaxProducts : DeleteProduct(s, u, id)
    \/ \E u \in Users, id \in 1..MaxProducts : ToggleWishlistFind(s, u, id)
    \/ ToggleWishlistSave(s)
    \/ \E u \in Users, pid \in 0..MaxProducts : CreateSavingsLogFind(s, u, pid)
    \/ CreateSavingsLogSave(s)
    \/ \E u \in Users, id \in 1..MaxLogs : DeleteSavingsLogFind(s, u, id)
    \/ DeleteSavingsLogDelete(s)

SpecShop == Init /\ [][NextShop]_vars

\* Calls of fetchGoldPrices interleave at their await while the cache ages.
NextCache ==
  \/ \E f \in Fetches : FetchStart(f)
  \/ \E f \in Fetches, ok \in BOOLEAN, d \in 1..MaxGoldData : FetchResolve(f, ok, d)
  \/ CacheTick

SpecCache == Init /\ [][NextCache]_vars

\* ------------------------------------------------------------- claims --
\* Request r ends in this step, having run operation op.
Ends(r, op) == reqs[r].op = op /\ InFlight(r) /\ reqs'[r].pc = "done"

Ended(r, op, result) == reqs[r].op = op /\ reqs[r].pc = "done" /\ reqs[r].res = result

\* C1: a revoked session is never un-revoked by any request, and a refresh
\* that presents the secret of a session that was already revoked when the
\* request arrived fails with InvalidRefreshToken.
C1_Step ==
  /\ \A i \in DOMAIN sessions :
       sessions[i].isRevoked => i \in DOMAIN sessions' /\ sessions'[i].isRevoked
  /\ \A r \in Reqs :
       (/\ Ends(r, "refresh")
        /\ \E i \in DOMAIN pre.sessions :
             pre.sessions[i].token = reqs[r].token /\ pre.sessions[i].isRevoked)
       => reqs'[r].res = "InvalidRefreshToken"

C1_RevocationPermanent == [][C1_Step]_vars

\* A refresh with the secret of a rotated session of an active user failed.
C1_Witness ==
  /\ Ended(1, "refresh", "InvalidRefreshToken")
  /\ \E i \in DOMAIN sessions :
       /\ sessions[i].token = reqs[1].token
       /\ sessions[i].isRevoked
       /\ sessions[i].replacedByToken # NoToken
       /\ users[sessions[i].userId].isActive

\* C2: of two refresh requests that present the same secret at most one
\* succeeds.
C2_SingleUse ==
  \A r1, r2 \in Reqs :
    (r1 # r2 /\ Ended(r1, "refresh", "ok") /\ Ended(r2, "refresh", "ok"))
    => reqs[r1].token # reqs[r2].token

\* C3: a user who is inactive, with no deactivation still running its
\* cascade, has no usable session.
C3_NoUsableWhileInactive ==
  \A u \in Users :
    (/\ users[u].exists
     /\ ~users[u].isActive
     /\ \A r \in Reqs : ~(reqs[r].op = "toggle" /\ reqs[r].userId = u /\ InFlight(r)))
    => ActiveOf(sessions, u, now) = {}

\* C4: a successful refresh of S adds one session, marks S revoked with
\* revokedAt set and replacedByToken the new secret, leaves the new session
\* unrevoked with replacedByToken unset, and changes no other session.
C4_Step ==
  \A r \in Reqs :
    (Ends(r, "refresh") /\ reqs'[r].res = "ok") =>
      LET old == pre.sessions
          S == FindByToken(old, reqs[r].token)
          n == Len(sessions')
      IN  /\ S # NoSession
          /\ ~old[S].isRevoked
          /\ n = Len(old) + 1
          /\ sessions'[S].isRevoked
          /\ sessions'[S].revokedAt # NoDate
          /\ sessions'[S].replacedByToken = sessions'[n].token
          /\ sessions'[n].token = reqs'[r].newToken
          /\ ~sessions'[n].isRevoked
          /\ sessions'[n].replacedByToken = NoToken
          /\ \A i \in DOMAIN old : i # S => sessions'[i] = old[i]

C4_RotationPost == [][C4_Step]_vars

\* A refresh has just succeeded next to a session it did not touch.
C4_Witness ==
  /\ Ended(1, "refresh", "ok")
  /\ Len(sessions) = 3
  /\ \E i \in 1..2 :
       /\ sessions[i].token = reqs[1].token
       /\ sessions[i].isRevoked
       /\ sessions[i].replacedByToken = sessions[3].token
  /\ ~sessions[3].isRevoked

\* C5: after a refresh that ended in an internal error the presented secret
\* still belongs to a session that is not revoked.
C5_OldSecretSurvives ==
  \A r \in Reqs :
    Ended(r, "refresh", "InternalError") =>
      \E i \in DOMAIN sessions :
        sessions[i].token = reqs[r].token /\ Usable(sessions[i], now)

\* C6: a successful sign-in of user u on device d revokes the unrevoked
\* sessions of (u, d) without touching their replacedByToken, changes no
\* other session, and leaves the new session as the only usable one of
\* (u, d).
C6_Step ==
  \A r \in Reqs :
    (Ends(r, "signIn") /\ reqs'[r].res = "ok") =>
      LET old == pre.sessions
          u == reqs[r].userId
          d == reqs[r].deviceId
          n == Len(sessions')
      IN  /\ n = Len(old) + 1
          /\ sessions'[n].userId = u
          /\ sessions'[n].deviceId = d
          /\ {i \in DOMAIN sessions' :
                /\ sessions'[i].userId = u
                /\ sessions'[i].deviceId = d
                /\ Usable(sessions'[i], now)} = {n}
          /\ \A i \in DOMAIN old :
               IF old[i].userId = u /\ old[i].deviceId = d /\ ~old[i].isRevoked
                 THEN /\ sessions'[i].isRevoked
                      /\ sessions'[i].replacedByToken = NoToken
                      /\ [sessions'[i] EXCEPT !.isRevoked = FALSE, !.revokedAt = NoDate] = old[i]
                 ELSE sessions'[i] = old[i]

C6_SameDeviceOnly == [][C6_Step]_vars

\* Sign-up on A, sign-in on B, sign-in on A: the first A session is revoked
\* with no successor, B's session and the new A session are usable.
C6_Witness ==
  /\ Ended(1, "signIn", "ok")
  /\ Len(sessions) = 3
  /\ \A i \in 1..3 : sessions[i].userId = sessions[1].userId
  /\ sessions[1].deviceId = sessions[3].deviceId
  /\ sessions[2].deviceId # sessions[3].deviceId
  /\ sessions[1].isRevoked /\ sessions[1].replacedByToken = NoToken
  /\ Usable(sessions[2], now) /\ Usable(sessions[3], now)

\* The detector's inputs as the sign-in found them.
ActiveBefore(r) == Cardinality(ActiveOf(pre.sessions, reqs[r].userId, pre.now))

RecentDevicesBefore(r) == Cardinality(RecentDevices(pre.sessions, reqs[r].userId, pre.now))

\* C7 as stated: the count of usable sessions alone decides, 6 is flagged
\* and 5 is not.
C7_Original_Step ==
  \A r \in Reqs :
    (Ends(r, "signIn") /\ reqs'[r].res = "ok") =>
      /\ ActiveBefore(r) = MaxActiveSessions + 1 => reqs'[r].susp
      /\ ActiveBefore(r) = MaxActiveSessions => ~reqs'[r].susp

C7_CountAlone == [][C7_Original_Step]_vars

\* C7 as amended: a sign-in with 6 usable sessions is flagged whatever their
\* creation times and devices; a sign-in with 5 usable sessions is not
\* flagged when the user's sessions of the last hour carry at most 3
\* distinct deviceIds, and is flagged when they carry more.
C7_Step ==
  \A r \in Reqs :
    (Ends(r, "signIn") /\ reqs'[r].res = "ok") =>
      /\ sessions'[Len(sessions')].suspiciousActivity = reqs'[r].susp
      /\ ActiveBefore(r) = MaxActiveSessions + 1 => reqs'[r].susp
      /\ ActiveBefore(r) = MaxActiveSessions =>
           (reqs'[r].susp <=> RecentDevicesBefore(r) > MaxRecentDevices)

C7_Thresholds == [][C7_Step]_vars

\* The detector has flagged a sign-in that found 6 usable sessions of which
\* at most 3 are of the last hour.
C7_Witness ==
  /\ reqs[1].op = "signIn" /\ reqs[1].pc = "si_insert"
  /\ reqs[1].susp
  /\ ActiveBefore(1) = MaxActiveSessions + 1
  /\ RecentDevicesBefore(1) <= MaxRecentDevices

\* C8: a refresh succeeds only for a session that is usable, so a refresh of
\* an unrevoked session with expiresAt <= now (equality included) does not
\* succeed.
C8_Step ==
  \A r \in Reqs :
    (Ends(r, "refresh") /\ reqs'[r].res = "ok") =>
      LET i == FindByToken(pre.sessions, reqs[r].token) IN
      i # NoSession /\ Usable(pre.sessions[i], pre.now)

C8_ExpiryInclusive == [][C8_Step]_vars

\* C9: a deactivation revokes, with revokedAt set, every unrevoked session
\* of the user and nothing else, so that the user has no usable session; a
\* reactivation changes no session.
C9_Step ==
  \A r \in Reqs :
    (Ends(r, "toggle") /\ reqs'[r].res = "ok") =>
      LET old == pre.sessions
          u == reqs[r].userId
      IN  /\ DOMAIN sessions' = DOMAIN old
          /\ IF reqs'[r].uActive
               THEN /\ users'[u].isActive
                    /\ sessions' = old
               ELSE /\ ~users'[u].isActive
                    /\ ActiveOf(sessions', u, now) = {}
                    /\ \A i \in DOMAIN old :
                         IF old[i].userId = u /\ ~old[i].isRevoked
                           THEN /\ sessions'[i].isRevoked
                                /\ sessions'[i].revokedAt # NoDate
                                /\ [sessions'[i] EXCEPT !.isRevoked = FALSE,
                                                        !.revokedAt = NoDate] = old[i]
                           ELSE sessions'[i] = old[i]

C9_CascadePost == [][C9_Step]_vars

\* A deactivation has ended: the user's two sessions are revoked with no
\* successor and the other user's session is usable.
C9_Witness ==
  /\ Ended(1, "toggle", "ok")
  /\ ~reqs[1].uActive
  /\ Len(sessions) = 3
  /\ \E u \in Users :
       /\ users[u].exists /\ ~users[u].isActive
       /\ Cardinality({i \in DOMAIN sessions :
             /\ sessions[i].userId = u
             /\ sessions[i].isRevoked
             /\ sessions[i].revokedAt # NoDate
             /\ sessions[i].replacedByToken = NoToken}) = 2
       /\ \E i \in DOMAIN sessions :
             sessions[i].userId # u /\ Usable(sessions[i], now)

\* C10: logout always answers 200, and a logout with a secret that matches
\* no session or an already revoked session (as a second logout with the
\* same secret does) leaves the store as it was.
C10_Step ==
  \A r \in Reqs :
    Ends(r, "logout") =>
      LET i == FindByToken(pre.sessions, reqs[r].token) IN
      /\ reqs'[r].res = "ok"
      /\ (i = NoSession \/ pre.sessions[i].isRevoked) => sessions' = pre.sessions

C10_LogoutIdempotent == [][C10_Step]_vars

\* C11: a sign-in whose email matches no user or whose password does not
\* match ends with InvalidCredentials whatever the state of the account, a
\* sign-in with the right password on an inactive account ends with
\* AccountDeactivated, and neither issues a session.
C11_Step ==
  \A r \in Reqs :
    Ends(r, "signIn") =>
      /\ (~reqs[r].uExists \/ ~reqs[r].pwOk) => reqs'[r].res = "InvalidCredentials"
      /\ (reqs[r].uExists /\ reqs[r].pwOk /\ ~reqs[r].uActive)
           => reqs'[r].res = "AccountDeactivated"
      /\ reqs'[r].res \in {"InvalidCredentials", "AccountDeactivated"}
           => (sessions' = pre.sessions /\ reqs'[r].newToken = NoToken)

C11_SignInErrorKinds == [][C11_Step]_vars

\* Slot r has just answered a logout-all request.
LogoutAllStep(r) ==
  /\ ~InFlight(r)
  /\ reqs'[r].op = "logoutAll" /\ reqs'[r].pc = "done"
  /\ (reqs'[r] # reqs[r] \/ sessions' # sessions)

\* C12: logout-all reports the number of sessions of the caller that were
\* usable right before the call, leaves the caller without a usable session
\* and changes no session of another user.
C12_Step ==
  \A r \in Reqs :
    LogoutAllStep(r) =>
      \E u \in Users :
        /\ users[u].exists
        /\ reqs'[r].count = Cardinality(ActiveOf(sessions, u, now))
        /\ ActiveOf(sessions', u, now) = {}
        /\ \A i \in DOMAIN sessions : sessions[i].userId # u => sessions'[i] = sessions[i]

C12_LogoutAllCount == [][C12_Step]_vars

\* C13: a revoke-session request of user u that names a session of another
\* user ends with SessionNotFound and changes no session; one that names a
\* session of u ends ok with that session revoked, its replacedByToken as it
\* was, and no other session changed.
C13_Step ==
  \A r \in Reqs :
    Ends(r, "revokeSession") =>
      LET old == pre.sessions
          u == reqs[r].userId
          sid == reqs[r].token
      IN  IF sid \in DOMAIN old /\ old[sid].userId = u
            THEN /\ reqs'[r].res = "ok"
                 /\ sessions'[sid].isRevoked
                 /\ sessions'[sid].replacedByToken = old[sid].replacedByToken
                 /\ DOMAIN sessions' = DOMAIN old
                 /\ \A i \in DOMAIN old : i # sid => sessions'[i] = old[i]
            ELSE /\ reqs'[r].res = "SessionNotFound"
                 /\ sessions' = old

C13_OwnSessionsOnly == [][C13_Step]_vars

\* A user asked to revoke the usable session of another user and got
\* SessionNotFound.
C13_Witness ==
  /\ Ended(1, "revokeSession", "SessionNotFound")
  /\ reqs[1].token \in DOMAIN sessions
  /\ Usable(sessions[reqs[1].token], now)
  /\ \E u \in Users : users[u].exists /\ u # sessions[reqs[1].token].userId

\* C14: in every state, the states inside a refresh included, a session that
\* names a successor in replacedByToken is revoked, so it and the session
\* that carries that secret are never both usable; and a session is inserted
\* under a secret only when every session that names that secret is revoked
\* already.
C14_NeverBothUsable ==
  \A i \in DOMAIN sessions :
    sessions[i].replacedByToken # NoToken =>
      /\ sessions[i].isRevoked
      /\ \A j \in DOMAIN sessions :
           sessions[j].token = sessions[i].replacedByToken
             => ~(Usable(sessions[i], now) /\ Usable(sessions[j], now))

\* A refresh stands between its two writes: the old session is revoked and
\* names a secret that no stored session carries yet.
C14_Witness ==
  \E r \in Reqs :
    /\ reqs[r].op = "refresh" /\ reqs[r].pc = "rf_insert"
    /\ sessions[reqs[r].sid].isRevoked
    /\ sessions[reqs[r].sid].replacedByToken = reqs[r].newToken
    /\ ~TokenTaken(sessions, reqs[r].newToken)

\* The unrevoked sessions whose expiresAt has passed and that are still
\* stored.
PastExpiry(store, t) ==
  {i \in DOMAIN store : ~store[i].isRevoked /\ store[i].expiresAt < t}

\* C15: an unrevoked session whose expiresAt has passed and that is still
\* stored is not treated as usable: a refresh with its secret ends with
\* RefreshTokenExpired and writes nothing, the list of active sessions does
\* not hold it, and the detector's count of active sessions leaves it out.
C15_Step ==
  \A r \in Reqs :
    /\ (/\ Ends(r, "refresh")
        /\ FindByToken(pre.sessions, reqs[r].token) \in PastExpiry(pre.sessions, pre.now))
       => (reqs'[r].res = "RefreshTokenExpired" /\ sessions' = pre.sessions)
    /\ (/\ ~InFlight(r)
        /\ reqs'[r] # reqs[r]
        /\ reqs'[r].op = "sessions" /\ reqs'[r].pc = "done")
       => reqs'[r].list \cap PastExpiry(sessions, now) = {}
    /\ (reqs[r].pc = "si_active" /\ reqs'[r].pc = "si_recent")
       => reqs'[r].count <=
            Cardinality({i \in DOMAIN sessions : sessions[i].userId = reqs[r].userId}
                          \ PastExpiry(sessions, now))

C15_ExpiredIsInert == [][C15_Step]_vars

\* A refresh with the secret of a stored, unrevoked session whose expiresAt
\* has passed ended with RefreshTokenExpired.
C15_Witness ==
  /\ Ended(1, "refresh", "RefreshTokenExpired")
  /\ \E i \in DOMAIN sessions :
       /\ sessions[i].token = reqs[1].token
       /\ ~sessions[i].isRevoked
       /\ sessions[i].expiresAt < now

\* No two stored sessions carry the same secret.
C16_Unique ==
  \A i, j \in DOMAIN sessions : sessions[i].token = sessions[j].token => i = j

\* No step rewrites or removes the secret of a stored session, and a step
\* that inserts a session inserts one whose secret no stored session carries.
C16_Step ==
  /\ \A i \in DOMAIN sessions :
       i \in DOMAIN sessions' /\ sessions'[i].token = sessions[i].token
  /\ \A n \in DOMAIN sessions' \ DOMAIN sessions :
       ~\E i \in DOMAIN sessions : sessions[i].token = sessions'[n].token

\* C16: in every reachable state no two session records, usable, revoked or
\* expired, of any users, carry the same token, a stored token is never
\* rewritten, and an insert under a stored token is rejected, not stored.
C16_UniqueSecrets == []C16_Unique /\ [][C16_Step]_vars

\* A sign-in drew a secret that a stored session carries, its insert was
\* rejected and the store holds that secret once.
C16_Witness ==
  \E r \in Reqs :
    /\ Ended(r, "signIn", "InternalError")
    /\ sessions # <<>>
    /\ C16_Unique

\* C17: a step of a request to POST /store-today or POST /seed adds a record
\* to the gold price history only when the request comes from an
\* authenticated caller who is an active admin.
C17_Step ==
  Len(gold'.history) > Len(gold.history) =>
    \A c \in GoldCalls :
      (gold'.calls[c] # gold.calls[c] /\ gold.calls[c].op \in {"storeToday", "seed"})
        => gold.calls[c].caller = "admin"

C17_AdminOnly == [][C17_Step]_vars

\* C18: the flag of a successful sign-in is Rule A or Rule B on the store as
\* the sign-in found it, before its same-device revocation and its insert:
\* flagged iff the user had more than 5 usable sessions or the user's
\* sessions of the last hour carried more than 3 distinct deviceIds; the
\* deviceId of the sign-in itself does not count.
C18_Step ==
  \A r \in Reqs :
    (Ends(r, "signIn") /\ reqs'[r].res = "ok") =>
      (reqs'[r].susp <=>
         \/ ActiveBefore(r) > MaxActiveSessions
         \/ RecentDevicesBefore(r) > MaxRecentDevices)

C18_FlagIsRuleAOrB == [][C18_Step]_vars

\* A sign-in from a device that holds no session, for a user whose sessions
\* of the last hour carry exactly 3 deviceIds, is about to insert its
\* session unflagged.
C18_Witness ==
  /\ reqs[1].op = "signIn" /\ reqs[1].pc = "si_insert"
  /\ ~reqs[1].susp
  /\ RecentDevicesBefore(1) = MaxRecentDevices
  /\ \A i \in DOMAIN pre.sessions : pre.sessions[i].deviceId # reqs[1].deviceId

\* The refresh failures that are decided before the rotation.
RefreshFailures == {"InvalidRefreshToken", "RefreshTokenExpired", "UserInactive"}

\* C19: a refresh that ends with InvalidRefreshToken, RefreshTokenExpired or
\* UserInactive has written nothing: no step of the request up to and
\* including the one that answers changes a session (the presented one keeps
\* isRevoked, usageCount, lastUsedAt and ipAddress) or adds one.
C19_Step ==
  \A r \in Reqs :
    /\ (Ends(r, "refresh") /\ reqs'[r].res \in RefreshFailures)
       => (sessions' = sessions /\ reqs[r].newToken = NoToken)
    /\ (/\ reqs'[r] # reqs[r]
        /\ reqs'[r].op = "refresh"
        /\ reqs'[r].pc \notin {"idle", "done"}
        /\ reqs'[r].newToken = NoToken)
       => sessions' = sessions

C19_FailedRefreshWritesNothing == [][C19_Step]_vars

\* A refresh ended with UserInactive while the presented session is stored
\* unrevoked, as the sign-up left it.
C19_Witness ==
  \E r \in Reqs :
    /\ Ended(r, "refresh", "UserInactive")
    /\ \E i \in DOMAIN sessions :
         /\ sessions[i].token = reqs[r].token
         /\ ~sessions[i].isRevoked
         /\ sessions[i].usageCount = 1
         /\ sessions[i].lastUsedAt = sessions[i].createdAt

\* C20: revokedAt is written once, by the step that turns isRevoked from
\* false to true; no step changes the revokedAt of a session that is revoked
\* already, whichever operation revokes it again.
C20_Step ==
  \A i \in DOMAIN sessions :
    /\ sessions[i].isRevoked => sessions'[i].revokedAt = sessions[i].revokedAt
    /\ (~sessions[i].isRevoked /\ sessions'[i].isRevoked) => sessions'[i].revokedAt = now
    /\ ~sessions'[i].isRevoked => sessions'[i].revokedAt = NoDate

C20_RevokedAtWrittenOnce == [][C20_Step]_vars

\* A session that names a successor is revoked.
C21_Linked ==
  \A i \in DOMAIN sessions : sessions[i].replacedByToken # NoToken => sessions[i].isRevoked

\* A step changes the replacedByToken of a stored session only when it is the
\* storedToken.save() of a refresh of that session, which writes the new
\* secret together with isRevoked and revokedAt; a session is inserted with
\* replacedByToken unset.
C21_Step ==
  /\ \A i \in DOMAIN sessions :
       sessions'[i].replacedByToken # sessions[i].replacedByToken =>
         \E r \in Reqs :
           /\ reqs[r].op = "refresh" /\ reqs[r].pc = "rf_save" /\ reqs'[r].pc = "rf_insert"
           /\ reqs[r].sid = i
           /\ sessions'[i].replacedByToken = reqs'[r].newToken
           /\ sessions'[i].replacedByToken # NoToken
           /\ sessions'[i].isRevoked
           /\ sessions'[i].revokedAt = now
  /\ \A n \in DOMAIN sessions' \ DOMAIN sessions : sessions'[n].replacedByToken = NoToken

\* C21: replacedByToken is written only by rotation: in every reachable state
\* a session with replacedByToken set is revoked, the only step that sets it
\* is the save of a refresh that revokes the session in the same write, and
\* no step of logout, logout-all, revoke-session, sign-in or the deactivation
\* cascade sets or clears it.
C21_OnlyRotationLinks == []C21_Linked /\ [][C21_Step]_vars

\* A logout has ended with the secret of a session that a refresh rotated:
\* the session still names its successor.
C21_Witness ==
  \E r \in Reqs :
    /\ Ended(r, "logout", "ok")
    /\ \E i, j \in DOMAIN sessions :
         /\ sessions[i].token = reqs[r].token
         /\ sessions[i].isRevoked
         /\ sessions[i].replacedByToken = sessions[j].token

\* C22: the detector's verdict is written at sign-in only and carried along
\* the rotation chain: a session created by sign-up is unflagged, a session
\* created by a refresh has the flag of the session it replaces, and no step
\* of any request changes the flag of a stored session.
C22_Step ==
  /\ \A i \in DOMAIN sessions :
       sessions'[i].suspiciousActivity = sessions[i].suspiciousActivity
  /\ \A r \in Reqs :
       /\ (Ends(r, "signUp") /\ reqs'[r].res = "Created")
          => ~sessions'[Len(sessions')].suspiciousActivity
       /\ (Ends(r, "refresh") /\ reqs'[r].res = "ok")
          => LET S == FindByToken(pre.sessions, reqs[r].token) IN
             /\ Len(sessions') = Len(pre.sessions) + 1
             /\ sessions'[Len(sessions')].suspiciousActivity
                  = pre.sessions[S].suspiciousActivity
             /\ sessions'[S].suspiciousActivity = pre.sessions[S].suspiciousActivity

C22_VerdictCarried == [][C22_Step]_vars

\* A refresh has rotated a session that a sign-in had flagged: the old
\* session and its successor are both flagged.
C22_Witness ==
  /\ Ended(1, "refresh", "ok")
  /\ \E i \in DOMAIN sessions :
       /\ sessions[i].token = reqs[1].token
       /\ sessions[i].suspiciousActivity
       /\ sessions[i].replacedByToken = sessions[Len(sessions)].token
       /\ sessions[Len(sessions)].suspiciousActivity

\* The detector's verdict on the store as sign-in r found it.
VerdictBefore(r) ==
  \/ ActiveBefore(r) > MaxActiveSessions
  \/ RecentDevicesBefore(r) > MaxRecentDevices

\* Sign-in r presented the right password of an existing, active account.
ValidSignIn(r) == reqs[r].uExists /\ reqs[r].uActive /\ reqs[r].pwOk

\* C23 as stated: a sign-in with valid credentials on an active account
\* always succeeds and creates a session, flagged or not; the session's
\* suspiciousActivity is the detector's verdict and the response carries the
\* warning exactly when the verdict is true.
C23_Original_Step ==
  \A r \in Reqs :
    (Ends(r, "signIn") /\ ValidSignIn(r)) =>
      /\ reqs'[r].res = "ok"
      /\ Len(sessions') = Len(pre.sessions) + 1
      /\ sessions'[Len(sessions')].suspiciousActivity = VerdictBefore(r)
      /\ reqs'[r].susp = VerdictBefore(r)

C23_Step ==
  \A r \in Reqs :
    (Ends(r, "signIn") /\ ValidSignIn(r)) =>
      LET n == Len(sessions') IN
      \/ /\ reqs'[r].res = "ok"
         /\ n = Len(pre.sessions) + 1
         /\ ~TokenTaken(sessions, sessions'[n].token)
         /\ sessions'[n].suspiciousActivity = VerdictBefore(r)
         /\ reqs'[r].susp = VerdictBefore(r)
      \/ /\ reqs'[r].res = "InternalError"
         /\ sessions' = sessions
         /\ sessions # <<>>

C24_Step ==
  /\ \A i \in DOMAIN sessions : sessions'[i].deviceId = sessions[i].deviceId
  /\ \A r \in Reqs :
       (Ends(r, "refresh") /\ reqs'[r].res = "ok") =>
         LET old == pre.sessions
             S == FindByToken(old, reqs[r].token)
             n == Len(sessions')
         IN  /\ n = Len(old) + 1
             /\ sessions'[S].usageCount = old[S].usageCount + 1
             /\ sessions'[S].lastUsedAt = now
             /\ sessions'[n].usageCount = 0
             /\ sessions'[n].lastUsedAt = now
             /\ sessions'[n].deviceId = old[S].deviceId
             /\ sessions'[n].userId = old[S].userId

C24_RefreshTelemetry == [][C24_Step]_vars

\* A session was rotated an hour after its creation and its successor was
\* rotated in turn: the first carries its new lastUsedAt and usageCount 2,
\* the second usageCount 1, the third usageCount 0, all on one device.
C24_Witness ==
  /\ Ended(1, "refresh", "ok")
  /\ \E i, j, k \in DOMAIN sessions :
       /\ sessions[i].replacedByToken = sessions[j].token
       /\ sessions[j].replacedByToken = sessions[k].token
       /\ sessions[i].lastUsedAt > sessions[i].createdAt
       /\ sessions[i].usageCount = 2
       /\ sessions[j].usageCount = 1
       /\ sessions[k].usageCount = 0
       /\ sessions[k].lastUsedAt = now
       /\ sessions[i].deviceId = sessions[k].deviceId
       /\ sessions[i].deviceId # sessions[1].deviceId

\* C25: a session created by rotation expires 30 days after the refresh,
\* whatever the expiresAt and createdAt of the session it replaces, and is
\* usable at once; and a refresh that presents the last session of a chain
\* while that session is usable is never refused as expired or unknown, so a
\* chain that is refreshed within every 30-day window keeps a usable last
\* session.
C25_Step ==
  \A r \in Reqs :
    Ends(r, "refresh") =>
      LET old == pre.sessions
          S == FindByToken(old, reqs[r].token)
          n == Len(sessions')
      IN  /\ reqs'[r].res = "ok" =>
               /\ n = Len(old) + 1
               /\ sessions'[n].createdAt = now
               /\ sessions'[n].expiresAt = now + RefreshTokenDays * 24
               /\ Usable(sessions'[n], now)
               /\ \A t \in now..(now + RefreshTokenDays * 24 - 1) : Usable(sessions'[n], t)
          /\ (S # NoSession /\ Usable(old[S], pre.now)) =>
               reqs'[r].res \notin {"RefreshTokenExpired", "InvalidRefreshToken"}

C25_FullFreshWindow == [][C25_Step]_vars

\* A session born by rotation in the first hour was rotated when its own
\* window was about to close, long after the first session of the chain
\* expired: the successor is good for 30 more days.
C25_Witness ==
  /\ Ended(1, "refresh", "ok")
  /\ Len(sessions) = 3
  /\ sessions[1].replacedByToken = sessions[2].token
  /\ sessions[2].replacedByToken = sessions[3].token
  /\ sessions[1].expiresAt <= now
  /\ sessions[2].createdAt > sessions[1].createdAt
  /\ sessions[2].expiresAt - now < RefreshWindow
  /\ sessions[2].expiresAt > now
  /\ sessions[3].expiresAt = now + RefreshWindow

\* The stored session that sign-in r created.
CreatedBy(r) == FindByToken(sessions, reqs[r].newToken)

\* C26: once two sign-ins of the same user on the same deviceId have both
\* completed, at most one session of that (user, deviceId) pair is not
\* revoked: the sessions the two created are not both unrevoked.
C26_OnePerDevice ==
  \A r1, r2 \in Reqs :
    (r1 # r2 /\ Ended(r1, "signIn", "ok") /\ Ended(r2, "signIn", "ok")) =>
      LET a == CreatedBy(r1)
          b == CreatedBy(r2)
      IN  (/\ a # NoSession /\ b # NoSession
           /\ sessions[a].userId = sessions[b].userId
           /\ sessions[a].deviceId = sessions[b].deviceId)
          => (sessions[a].isRevoked \/ sessions[b].isRevoked)

\* C27: a sign-in that ends with InvalidCredentials or AccountDeactivated
\* changes no session: the step that answers writes nothing and the store is
\* as the request found it, so the same-device revocation is not applied and
\* every session of that user on the presented deviceId is as usable after
\* the failed attempt as before it.
C27_Step ==
  \A r \in Reqs :
    (/\ Ends(r, "signIn")
     /\ reqs'[r].res \in {"InvalidCredentials", "AccountDeactivated"})
    => /\ sessions' = sessions
       /\ sessions' = pre.sessions
       /\ now' = pre.now
       /\ \A i \in DOMAIN pre.sessions :
            (/\ pre.sessions[i].userId = reqs[r].userId
             /\ pre.sessions[i].deviceId = reqs[r].deviceId)
            => (Usable(sessions'[i], now') <=> Usable(pre.sessions[i], pre.now))

C27_FailedSignInWritesNothing == [][C27_Step]_vars

\* The latest request was a sign-in with a wrong password for the user, who
\* is active and holds a usable session on the device.
C27_Witness ==
  /\ Ended(1, "signIn", "InvalidCredentials")
  /\ users[1].exists /\ users[1].isActive
  /\ \E i \in DOMAIN sessions :
       /\ sessions[i].userId = 1
       /\ sessions[i].deviceId \in 1..ClockDevices
       /\ Usable(sessions[i], now)

\* No two records of the gold price history carry the same UTC day.
C28_OnePerDay ==
  \A k, l \in DOMAIN gold.history :
    gold.history[k].date = gold.history[l].date => k = l

\* The operations that run storeTodayGoldPrice.
StoreOps == Origins \cup {"storeToday"}

\* No step rewrites or removes a stored record; a call of
\* storeTodayGoldPrice that starts on a day that has its record returns at
\* once and adds nothing; every record a call adds carries the call's day
\* and a price above zero.
C28_Step ==
  /\ \A k \in DOMAIN gold.history :
       k \in DOMAIN gold'.history /\ gold'.history[k] = gold.history[k]
  /\ \A k \in DOMAIN gold'.history \ DOMAIN gold.history : gold'.history[k].price > 0
  /\ \A c \in StoreCalls :
       (/\ ~CallInFlight(c)
        /\ gold'.calls[c] # gold.calls[c]
        /\ gold'.calls[c].op \in StoreOps
        /\ HasDate(gold.history, gold.day))
       => (gold'.history = gold.history /\ gold'.calls[c].pc = "done")

\* C28: the gold price history holds at most one record per UTC day in every
\* reachable state, also when the startup call, the cron job and the manual
\* store-today request run storeTodayGoldPrice concurrently; a call made
\* when today's record exists neither overwrites it nor adds one; a fetched
\* price that is zero or negative is never stored.
C28_OneRecordPerDay == []C28_OnePerDay /\ [][C28_Step]_vars

\* The startup call, the cron job and a store-today request all found no
\* record for today; one of them has stored it and the two others are about
\* to save theirs for the same day.
C28_Witness ==
  /\ Len(gold.history) = 1
  /\ gold.history[1].date = gold.day
  /\ \E c1, c2, c3 \in StoreCalls :
       /\ {gold.calls[c1].op, gold.calls[c2].op, gold.calls[c3].op} = StoreOps
       /\ gold.calls[c1].pc = "done" /\ gold.calls[c1].res = "ok"
       /\ gold.calls[c2].pc = "st_save" /\ gold.calls[c2].today = gold.day
       /\ gold.calls[c3].pc = "st_save" /\ gold.calls[c3].today = gold.day

\* Call f of fetchGoldPrices starts, resolves, in this step.
Starts(f) == gold.fetches[f].pc # "call" /\ gold'.fetches[f] # gold.fetches[f]

Resolves(f) == gold.fetches[f].pc = "call" /\ gold'.fetches[f].pc = "done"

\* C29: a call of fetchGoldPrices that starts while the cache is younger
\* than 5 minutes returns the cached data and calls no API; the cache, once
\* populated, is never emptied, and its data and timestamp change only in
\* the step where an API call succeeds, to the data received and the time of
\* that step; a call whose API call fails returns the cached data, however
\* old, and leaves the cache as it is; a call throws only when its API call
\* has failed and the cache is empty.
C29_Step ==
  /\ gold.cache # NoCache => gold'.cache # NoCache
  /\ gold'.cache # gold.cache =>
       \E f \in Fetches :
         /\ Resolves(f)
         /\ gold'.fetches[f].upstream = "ok"
         /\ gold'.cache = [data |-> gold'.fetches[f].data, timestamp |-> gold.clock]
  /\ \A f \in Fetches :
       /\ (Starts(f) /\ gold.cache # NoCache /\ gold.clock - gold.cache.timestamp < CacheDuration)
          => /\ gold'.fetches[f].pc = "done"
             /\ gold'.fetches[f].upstream = "none"
             /\ gold'.fetches[f].res = "cached"
             /\ gold'.fetches[f].data = gold.cache.data
       /\ (Starts(f) /\ gold'.fetches[f].pc = "done")
          => (gold.cache # NoCache /\ gold.clock - gold.cache.timestamp < CacheDuration)
       /\ (Resolves(f) /\ gold'.fetches[f].upstream = "ok")
          => (gold'.fetches[f].res = "fresh" /\ gold'.fetches[f].data = gold'.cache.data)
       /\ (Resolves(f) /\ gold'.fetches[f].upstream = "failed" /\ gold.cache # NoCache)
          => /\ gold'.fetches[f].res = "stale"
             /\ gold'.fetches[f].data = gold.cache.data
             /\ gold'.cache = gold.cache
       /\ (gold'.fetches[f] # gold.fetches[f] /\ gold'.fetches[f].res = "thrown")
          => (Resolves(f) /\ gold'.fetches[f].upstream = "failed" /\ gold.cache = NoCache)
       /\ (Resolves(f) /\ gold'.fetches[f].upstream = "failed" /\ gold.cache = NoCache)
          => gold'.fetches[f].res = "thrown"

C29_CacheDiscipline == [][C29_Step]_vars

\* A call whose API call failed has returned the data of a cache that is 5
\* minutes old or older, and the cache still carries its old timestamp.
C29_Witness ==
  \E f \in Fetches :
    /\ gold.fetches[f].pc = "done"
    /\ gold.fetches[f].upstream = "failed"
    /\ gold.fetches[f].res = "stale"
    /\ gold.cache # NoCache
    /\ gold.fetches[f].data = gold.cache.data
    /\ gold.clock - gold.cache.timestamp = CacheDuration

\* Every savings log that names a product names one that belongs to the
\* user of the log.
C30_LogsOnOwnProducts ==
  \A l \in DOMAIN shop.logs :
    shop.logs[l].productId # NoProduct =>
      /\ shop.logs[l].productId \in DOMAIN shop.products
      /\ shop.products[shop.logs[l].productId].userId = shop.logs[l].userId

\* The request that arrives in slot s in this step.
ShopArrives(s) == ~ShopInFlight(s) /\ shop'.reqs[s] # shop.reqs[s]

\* A stored product of another user than the one of the arriving request.
ForeignProduct(s) ==
  LET q == shop'.reqs[s] IN
  /\ q.id \in DOMAIN shop.products
  /\ ~shop.products[q.id].deleted
  /\ shop.products[q.id].userId # q.userId

ForeignLog(s) ==
  LET q == shop'.reqs[s] IN
  /\ q.id \in DOMAIN shop.logs
  /\ ~shop.logs[q.id].deleted
  /\ shop.logs[q.id].userId # q.userId

\* A request that names a record of another user ends with 404 in the step
\* of its lookup and changes nothing; a step changes a stored record only
\* when it is a step of a request of the record's owner that names it; the
\* owner of a record never changes; a log is inserted with the user of the
\* request that creates it.
C30_Step ==
  /\ \A s \in ShopReqs :
       /\ (/\ ShopArrives(s)
           /\ shop'.reqs[s].op \in {"getProduct", "updateProduct", "deleteProduct",
                                    "toggleWishlist", "createLog"}
           /\ ForeignProduct(s))
          => /\ shop'.reqs[s].pc = "done" /\ shop'.reqs[s].res = "NotFound"
             /\ shop'.products = shop.products /\ shop'.logs = shop.logs
       /\ (ShopArrives(s) /\ shop'.reqs[s].op = "deleteLog" /\ ForeignLog(s))
          => /\ shop'.reqs[s].pc = "done" /\ shop'.reqs[s].res = "NotFound"
             /\ shop'.products = shop.products /\ shop'.logs = shop.logs
  /\ \A id \in DOMAIN shop.products :
       /\ id \in DOMAIN shop'.products
       /\ shop'.products[id].userId = shop.products[id].userId
       /\ shop'.products[id] # shop.products[id] =>
            \E s \in ShopReqs :
              /\ shop'.reqs[s] # shop.reqs[s]
              /\ shop'.reqs[s].userId = shop.products[id].userId
              /\ shop'.reqs[s].id = id
              /\ shop'.reqs[s].op \in {"updateProduct", "deleteProduct", "toggleWishlist"}
  /\ \A l \in DOMAIN shop.logs :
       /\ l \in DOMAIN shop'.logs
       /\ shop'.logs[l].userId = shop.logs[l].userId
       /\ shop'.logs[l] # shop.logs[l] =>
            \E s \in ShopReqs :
              /\ shop'.reqs[s] # shop.reqs[s]
              /\ shop'.reqs[s].userId = shop.logs[l].userId
              /\ shop'.reqs[s].id = l
              /\ shop'.reqs[s].op = "deleteLog"
  /\ \A l \in DOMAIN shop'.logs \ DOMAIN shop.logs :
       \E s \in ShopReqs :
         /\ shop'.reqs[s] # shop.reqs[s]
         /\ shop'.reqs[s].op = "createLog"
         /\ shop'.logs[l].userId = shop'.reqs[s].userId

\* C30: a get, update, delete or wishlist-toggle of a product, or a delete
\* of a savings log, by user U with the id of a record of another user
\* answers 404 and leaves the record unchanged; only requests of its owner
\* change a record; and a savings log that names a product names a product
\* of the log's creator.
C30_OwnershipIsolation == []C30_LogsOnOwnProducts /\ [][C30_Step]_vars

\* The only request so far that is still on record is a wishlist-toggle by
\* a user on a stored product of another user, answered 404; the product is
\* not wishlisted.
C30_Witness ==
  /\ shop.reqs[2] = NoShopReq
  /\ shop.reqs[1].pc = "done"
  /\ shop.reqs[1].op = "toggleWishlist"
  /\ shop.reqs[1].res = "NotFound"
  /\ shop.reqs[1].id \in DOMAIN shop.products
  /\ ~shop.products[shop.reqs[1].id].deleted
  /\ shop.products[shop.reqs[1].id].userId # shop.reqs[1].userId
  /\ ~shop.products[shop.reqs[1].id].isWishlisted

=============================================================================
